---------------------------- MODULE Spec2Model ----------------------------
(***************************************************************************)
(* A model of the e-Faktur validation service (src/main.py): the text      *)
(* normalizer, the regular-expression field extractor, the reference       *)
(* fetcher, the reconciler and the orchestrator with its HTTP endpoint.    *)
(*                                                                         *)
(* Texts are TLA+ strings; a character is a string of length 1.  An        *)
(* optional value (Python's None or a str) is a sequence of length at most *)
(* one: None is <<>> and the string s is <<s>>, so that the empty string   *)
(* <<"">> and absence <<>> are different values.                           *)
(***************************************************************************)
EXTENDS Integers, Sequences, FiniteSets, TLC

VARIABLES
    pc,              \* where the current call stands
    via,             \* "endpoint" | "direct" | "none": how validate_efaktur was entered
    filename,        \* the request's filename
    calls,           \* the collaborators and components invoked so far, in order
    raw_ocr_text,    \* pdf_text / image_text: None until the text collaborator returns
    normalized,      \* parse_pdf_fields' local `text` after preprocess_ocr_text
    pdf_data,        \* ExtractedFields
    qr_url,          \* the optional QR URL
    djp_data,        \* ReferenceRecord
    deviations,      \* compare_fields(pdf_data, djp_data)
    swapped,         \* compare_fields(djp_data, pdf_data)
    response         \* what the call returned or raised

vars == <<pc, via, filename, calls, raw_ocr_text, normalized, pdf_data,
          qr_url, djp_data, deviations, swapped, response>>

-----------------------------------------------------------------------------
(* Python values *)

None == <<>>

Some(s) == <<s>>

\* Python truthiness of an optional string: None and "" are falsy.
Falsy(v) == v = None \/ v = Some("")

-----------------------------------------------------------------------------
(* Characters and str methods *)

Ch(s, i) == SubSeq(s, i, i)

UpperLetters == "ABCDEFGHIJKLMNOPQRSTUVWXYZ"

LowerLetters == "abcdefghijklmnopqrstuvwxyz"

Upper == {Ch(UpperLetters, i) : i \in 1..Len(UpperLetters)}

Lower == {Ch(LowerLetters, i) : i \in 1..Len(LowerLetters)}

Digit == {"0", "1", "2", "3", "4", "5", "6", "7", "8", "9"}

\* The ASCII punctuation that occurs in the texts of this model.
Punct == {".", ",", ":", "|", "-", "/", "&", "_", "(", ")"}

\* \s, and the characters str.strip() removes (of those a TLA+ string can hold).
Space == {" ", "\t", "\n", "\r", "\f"}

\* [\x00-\x7F] restricted to the characters of the model's texts.
Ascii == Upper \cup Lower \cup Digit \cup Punct \cup Space

\* the 1-based place of character c in the string `letters`
LetterIndex(letters, c) == CHOOSE i \in 1..Len(letters) : Ch(letters, i) = c

LowerChar(c) == IF c \in Upper THEN Ch(LowerLetters, LetterIndex(UpperLetters, c)) ELSE c

UpperChar(c) == IF c \in Lower THEN Ch(UpperLetters, LetterIndex(LowerLetters, c)) ELSE c

RECURSIVE JoinRange(_, _, _)
\* pieces[lo] \o ... \o pieces[hi], halving the range
JoinRange(pieces, lo, hi) ==
    IF lo > hi THEN ""
    ELSE IF lo = hi THEN pieces[lo]
    ELSE LET mid == (lo + hi) \div 2
         IN  JoinRange(pieces, lo, mid) \o JoinRange(pieces, mid + 1, hi)

\* ''.join(pieces)
Join(pieces) == JoinRange(pieces, 1, Len(pieces))

\* str.lower()
str_lower(s) == Join([i \in 1..Len(s) |-> LowerChar(Ch(s, i))])

\* str.upper()
str_upper(s) == Join([i \in 1..Len(s) |-> UpperChar(Ch(s, i))])

\* str.endswith(suffix)
str_endswith(s, suffix) ==
    /\ Len(suffix) <= Len(s)
    /\ SubSeq(s, Len(s) - Len(suffix) + 1, Len(s)) = suffix

MinOf(S) == CHOOSE x \in S : \A y \in S : x <= y

\* the first index >= from at which `old` occurs in s, or 0
str_find(s, old, from) ==
    LET at == {p \in from..(Len(s) - Len(old) + 1) : SubSeq(s, p, p + Len(old) - 1) = old}
    IN  IF at = {} THEN 0 ELSE MinOf(at)

RECURSIVE str_replace_from(_, _, _, _)
\* str.replace(old, new) on s[from..]: the non-overlapping occurrences, left to right
str_replace_from(s, from, old, new) ==
    LET p == str_find(s, old, from)
    IN  IF p = 0 THEN SubSeq(s, from, Len(s))
        ELSE SubSeq(s, from, p - 1) \o new \o str_replace_from(s, p + Len(old), old, new)

str_replace(s, old, new) == str_replace_from(s, 1, old, new)

RECURSIVE LStripIndex(_, _)
LStripIndex(s, i) ==
    IF i <= Len(s) /\ Ch(s, i) \in Space THEN LStripIndex(s, i + 1) ELSE i

RECURSIVE RStripIndex(_, _)
RStripIndex(s, j) ==
    IF j >= 1 /\ Ch(s, j) \in Space THEN RStripIndex(s, j - 1) ELSE j

\* str.strip()
str_strip(s) == SubSeq(s, LStripIndex(s, 1), RStripIndex(s, Len(s)))

RECURSIVE str_zfill(_, _)
\* str.zfill(width)
str_zfill(s, width) == IF Len(s) >= width THEN s ELSE str_zfill("0" \o s, width)

-----------------------------------------------------------------------------
(* re: the part of Python's backtracking matcher the patterns of main.py   *)
(* use.  A pattern is a sequence of alternatives tried in order at each    *)
(* start position; an alternative is a sequence of items and the capture   *)
(* groups as pairs <<first item, last item>>.  An item is a literal string *)
(* (lowered, and compared with the lowered text, under re.IGNORECASE) or a *)
(* character class with a greedy repetition min..max (unbounded when inf). *)

Item(cls, min, max, inf) ==
    [kind |-> "class", cls |-> cls, min |-> min, max |-> max, inf |-> inf,
     lit |-> "", icase |-> FALSE]

Literal(s, icase) ==
    [kind |-> "lit", cls |-> {}, min |-> 1, max |-> 1, inf |-> FALSE,
     lit |-> s, icase |-> icase]

One(cls) == <<Item(cls, 1, 1, FALSE)>>

Star(cls) == <<Item(cls, 0, 0, TRUE)>>

Plus(cls) == <<Item(cls, 1, 1, TRUE)>>

Rep(cls, min, max) == <<Item(cls, min, max, FALSE)>>

\* a literal string, case-sensitive
Lit(s) == <<Literal(s, FALSE)>>

\* a literal string under re.IGNORECASE
LitI(s) == <<Literal(str_lower(s), TRUE)>>

Alt(items, groups) == [items |-> items, groups |-> groups]

NoMatch == [ok |-> FALSE, start |-> 0, ends |-> <<>>, alt |-> 0]

RECURSIVE RunLen(_, _, _, _)
\* how many characters of cls follow position p (1-based), counted from n
RunLen(text, cls, p, n) ==
    IF p + n <= Len(text) /\ Ch(text, p + n) \in cls
    THEN RunLen(text, cls, p, n + 1)
    ELSE n

Min(a, b) == IF a <= b THEN a ELSE b

\* whether the literal item `it` stands at position p
LiteralAt(text, ltext, it, p) ==
    /\ p + Len(it.lit) - 1 <= Len(text)
    /\ SubSeq(IF it.icase THEN ltext ELSE text, p, p + Len(it.lit) - 1) = it.lit

RECURSIVE MatchItems(_, _, _, _, _)
RECURSIVE TryCount(_, _, _, _, _, _)
\* items[i..] matched at position p: [ok, ends], ends the position after each item
MatchItems(text, ltext, items, i, p) ==
    IF i > Len(items) THEN [ok |-> TRUE, ends |-> <<>>]
    ELSE LET it == items[i]
         IN  IF it.kind = "lit"
             THEN IF LiteralAt(text, ltext, it, p)
                  THEN LET r == MatchItems(text, ltext, items, i + 1, p + Len(it.lit))
                       IN  IF r.ok THEN [ok |-> TRUE, ends |-> <<p + Len(it.lit)>> \o r.ends]
                           ELSE [ok |-> FALSE, ends |-> <<>>]
                  ELSE [ok |-> FALSE, ends |-> <<>>]
             ELSE LET run   == RunLen(text, it.cls, p, 0)
                      avail == IF it.inf THEN run ELSE Min(run, it.max)
                  IN  TryCount(text, ltext, items, i, p, avail)

\* greedy with backtracking: item i takes n characters, then n - 1, ... down to min
TryCount(text, ltext, items, i, p, n) ==
    IF n < items[i].min THEN [ok |-> FALSE, ends |-> <<>>]
    ELSE LET r == MatchItems(text, ltext, items, i + 1, p + n)
         IN  IF r.ok THEN [ok |-> TRUE, ends |-> <<p + n>> \o r.ends]
             ELSE TryCount(text, ltext, items, i, p, n - 1)

RECURSIVE MatchAlts(_, _, _, _, _)
\* the alternatives a.. of the pattern tried in order at position p
MatchAlts(text, ltext, pat, a, p) ==
    IF a > Len(pat) THEN NoMatch
    ELSE LET r == MatchItems(text, ltext, pat[a].items, 1, p)
         IN  IF r.ok THEN [ok |-> TRUE, start |-> p, ends |-> r.ends, alt |-> a]
             ELSE MatchAlts(text, ltext, pat, a + 1, p)

\* re.search from position `from` on: the match at the leftmost position that has one
re_search_from(text, pat, from) ==
    LET ltext == str_lower(text)
        at    == {p \in from..(Len(text) + 1) : MatchAlts(text, ltext, pat, 1, p).ok}
    IN  IF at = {} THEN NoMatch ELSE MatchAlts(text, ltext, pat, 1, MinOf(at))

re_search(pat, text) == re_search_from(text, pat, 1)

\* position after the whole match
MatchEnd(m) == IF m.ends = <<>> THEN m.start ELSE m.ends[Len(m.ends)]

\* match.group(g)
Group(text, pat, m, g) ==
    LET gr    == pat[m.alt].groups[g]
        first == IF gr[1] = 1 THEN m.start ELSE m.ends[gr[1] - 1]
    IN  SubSeq(text, first, m.ends[gr[2]] - 1)

RECURSIVE re_finditer_from(_, _, _)
\* list(re.finditer(pat, text)): the non-overlapping matches, left to right
re_finditer_from(text, pat, p) ==
    LET m == re_search_from(text, pat, p)
    IN  IF ~m.ok THEN <<>>
        ELSE <<m>> \o re_finditer_from(text, pat,
                         IF MatchEnd(m) = m.start THEN m.start + 1 ELSE MatchEnd(m))

re_finditer(pat, text) == re_finditer_from(text, pat, 1)

\* re.sub('[cls]+', repl, text): every maximal run of cls becomes repl
re_sub_runs(cls, repl, text) ==
    Join([i \in 1..Len(text) |->
            IF Ch(text, i) \notin cls THEN Ch(text, i)
            ELSE IF i > 1 /\ Ch(text, i - 1) \in cls THEN ""
            ELSE repl])

\* re.sub('[^cls]', '', text): only the characters of cls are kept
re_sub_keep(cls, text) ==
    Join([i \in 1..Len(text) |-> IF Ch(text, i) \in cls THEN Ch(text, i) ELSE ""])

\* re.sub('[cls]', '', text): the characters of cls are removed
re_sub_drop(cls, text) ==
    Join([i \in 1..Len(text) |-> IF Ch(text, i) \in cls THEN "" ELSE Ch(text, i)])

-----
(* 4.1 Text Normalizer *)

preprocess_ocr_text(text) ==
    LET t1 == re_sub_runs({"\r", "\n"}, "\n", text)
        t2 == re_sub_runs({" ", "\t"}, " ", t1)
        t3 == str_replace(t2, "Sen Faktur", "Seri Faktur")
        t4 == str_replace(t3, "NPWP |", "NPWP :")
        t5 == str_replace(t4, "NPWP |", "NPWP :")
        t6 == str_replace(t5, "NPWP :", "NPWP:")
        t7 == str_replace(t6, "NIKPaspor", "NIK/Paspor")
        t8 == str_replace(t7, "Palak", "Pajak")
        t9 == re_sub_keep(Ascii, t8)
    IN  re_sub_runs({" "}, " ", t9)

-----------------------------------------------------------------------------
(* 4.2 Field Extractor *)

FIELDS == <<"npwpPenjual", "namaPenjual", "npwpPembeli", "namaPembeli",
            "nomorFaktur", "tanggalFaktur", "jumlahDpp", "jumlahPpn">>

FieldNames == {FIELDS[i] : i \in 1..Len(FIELDS)}

\* text[a:b] with 1-based a and exclusive 1-based b
Slice(s, a, b) == IF a >= b THEN "" ELSE SubSeq(s, a, b - 1)

\* [\s:|\-]
Sep == Space \cup {":", "|", "-"}

\* [0-9.\-]
NpwpChars == Digit \cup {".", "-"}

\* [A-Z0-9 .,&-]
NamaChars == Upper \cup Digit \cup {" ", ".", ",", "&", "-"}

\* [0-9.,]
AmountChars == Digit \cup {".", ","}

\* an alternative whose only capture group is the items of `group` after `prefix`
AltG(prefix, group) ==
    Alt(prefix \o group, << <<Len(prefix) + 1, Len(prefix) + Len(group)>> >>)

\* r'Pengusaha Kena Pajak', re.IGNORECASE
PenjualMarker == << Alt(LitI("Pengusaha Kena Pajak"), <<>>) >>

\* r'Pembeli Barang Kena Pajak', re.IGNORECASE
PembeliMarker == << Alt(LitI("Pembeli Barang Kena Pajak"), <<>>) >>

\* r'NPWP[\s:|\-]*([0-9.\-]+)'
NpwpPattern == << AltG(Lit("NPWP") \o Star(Sep), Plus(NpwpChars)) >>

\* r'Nama[\s:|\-]*([A-Z0-9 .,&-]+)'
NamaPattern == << AltG(Lit("Nama") \o Star(Sep), Plus(NamaChars)) >>

\* \d{1,2}/\d{1,2}/\d{4}
DateItems == Rep(Digit, 1, 2) \o One({"/"}) \o Rep(Digit, 1, 2) \o One({"/"}) \o Rep(Digit, 4, 4)

\* [0-9.\-]+[ ]*[0-9]+
NomorItems == Plus(NpwpChars) \o Star({" "}) \o Plus(Digit)

\* the dict `patterns`, each compiled under re.IGNORECASE
patterns ==
    [nomorFaktur |->
        << AltG(LitI("Kode dan Nomor Seri Faktur Pajak") \o Star(Sep), NomorItems),
           AltG(LitI("Nomor") \o Star(Sep) \o LitI("Faktur") \o Star(Sep), NomorItems) >>,
     tanggalFaktur |->
        << AltG(LitI("Tanggal") \o Star(Sep) \o LitI("Faktur"), DateItems),
           AltG(One({","}) \o Star(Space), DateItems) >>,
     jumlahDpp |->
        << AltG(LitI("Dasar Pengenaan Pajak") \o Star(Sep), Plus(AmountChars)) >>,
     jumlahPpn |->
        << AltG(LitI("Total PPN") \o Star(Sep), Plus(AmountChars)) >>]

\* r',\s*(\d{1,2})\s+([A-Z]+)\s+(\d{4})', re.IGNORECASE
DateFallbackPattern ==
    << Alt(One({","}) \o Star(Space) \o Rep(Digit, 1, 2) \o Plus(Space)
           \o Plus(Upper \cup Lower) \o Plus(Space) \o Rep(Digit, 4, 4),
           << <<3, 3>>, <<5, 5>>, <<7, 7>> >>) >>

indo_months ==
    [JANUARI |-> "01", FEBRUARI |-> "02", MARET |-> "03", APRIL |-> "04",
     MEI |-> "05", JUNI |-> "06", JULI |-> "07", AGUSTUS |-> "08",
     SEPTEMBER |-> "09", OKTOBER |-> "10", NOVEMBER |-> "11", DESEMBER |-> "12"]

\* the section from the seller marker (to the buyer marker when both occur)
penjual_section(text) ==
    LET penjual_start == re_search(PenjualMarker, text)
        pembeli_start == re_search(PembeliMarker, text)
    IN  IF penjual_start.ok /\ pembeli_start.ok
        THEN Slice(text, penjual_start.start, pembeli_start.start)
        ELSE IF penjual_start.ok
        THEN Slice(text, penjual_start.start, Len(text) + 1)
        ELSE ""

\* the section from the buyer marker to the end
pembeli_section(text) ==
    LET penjual_start == re_search(PenjualMarker, text)
        pembeli_start == re_search(PembeliMarker, text)
    IN  IF penjual_start.ok /\ pembeli_start.ok
        THEN Slice(text, pembeli_start.start, Len(text) + 1)
        ELSE IF penjual_start.ok
        THEN ""
        ELSE IF pembeli_start.ok
        THEN Slice(text, pembeli_start.start, Len(text) + 1)
        ELSE ""

extract_npwp(section) ==
    LET m == re_search(NpwpPattern, section)
    IN  IF m.ok THEN Some(re_sub_keep(Digit, Group(section, NpwpPattern, m, 1)))
        ELSE None

extract_nama(section) ==
    LET m == re_search(NamaPattern, section)
    IN  IF m.ok THEN Some(str_strip(Group(section, NamaPattern, m, 1)))
        ELSE None

\* npwp_penjual: the seller section first, then the first match in the whole text
npwp_penjual(section, text) ==
    LET v == IF section # "" THEN extract_npwp(section) ELSE None
    IN  IF Falsy(v) THEN extract_npwp(text) ELSE v

\* nama_penjual: the seller section first, then the first match in the whole text
nama_penjual(section, text) ==
    LET v == IF section # "" THEN extract_nama(section) ELSE None
    IN  IF Falsy(v) THEN extract_nama(text) ELSE v

\* a mutant of second_npwp: the first match is taken
second_npwp_first(text) ==
    LET all_npwp == re_finditer(NpwpPattern, text)
    IN  IF Len(all_npwp) > 1
        THEN Some(re_sub_keep(Digit, Group(text, NpwpPattern, all_npwp[1], 1)))
        ELSE None

\* all_npwp[1] of Python, the second match in the whole text, when there are two
second_npwp(text) ==
    LET all_npwp == re_finditer(NpwpPattern, text)
    IN  IF Len(all_npwp) > 1
        THEN Some(re_sub_keep(Digit, Group(text, NpwpPattern, all_npwp[2], 1)))
        ELSE None

\* all_nama[1] of Python, the second match in the whole text, when there are two
second_nama(text) ==
    LET all_nama == re_finditer(NamaPattern, text)
    IN  IF Len(all_nama) > 1
        THEN Some(str_strip(Group(text, NamaPattern, all_nama[2], 1)))
        ELSE None

\* npwp_pembeli: the buyer section first, then the second match in the whole text
npwp_pembeli(section, text) ==
    LET v == IF section # "" THEN extract_npwp(section) ELSE None
    IN  IF Falsy(v) THEN second_npwp(text) ELSE v

\* nama_pembeli: the buyer section first, then the second match in the whole text
nama_pembeli(section, text) ==
    LET v == IF section # "" THEN extract_nama(section) ELSE None
    IN  IF Falsy(v) THEN second_nama(text) ELSE v

\* the fallback for tanggalFaktur: ', DD MONTH YYYY'
DateFallback(text) ==
    LET match3 == re_search(DateFallbackPattern, text)
    IN  IF ~match3.ok THEN None
        ELSE LET day       == Group(text, DateFallbackPattern, match3, 1)
                 month_str == str_upper(Group(text, DateFallbackPattern, match3, 2))
                 year      == Group(text, DateFallbackPattern, match3, 3)
             IN  IF month_str \in DOMAIN indo_months
                 THEN Some(str_zfill(day, 2) \o "/" \o indo_months[month_str] \o "/" \o year)
                 ELSE None

\* one turn of `for field, pattern in patterns.items()`
ScalarField(field, text) ==
    LET pat   == patterns[field]
        match == re_search(pat, text)
        value == str_strip(Group(text, pat, match, 1))
    IN  IF match.ok
        THEN IF field = "nomorFaktur" THEN Some(re_sub_keep(Digit, value))
             ELSE IF field \in {"jumlahDpp", "jumlahPpn"}
             THEN Some(re_sub_drop(Space \cup {".", ","}, value))
             ELSE Some(value)
        ELSE IF field = "tanggalFaktur" THEN DateFallback(text)
        ELSE None

\* the fields extracted from the normalized text
ParseNormalized(text) ==
    LET penjual == penjual_section(text)
        pembeli == pembeli_section(text)
    IN  [npwpPenjual   |-> npwp_penjual(penjual, text),
         namaPenjual   |-> nama_penjual(penjual, text),
         npwpPembeli   |-> npwp_pembeli(pembeli, text),
         namaPembeli   |-> nama_pembeli(pembeli, text),
         nomorFaktur   |-> ScalarField("nomorFaktur", text),
         tanggalFaktur |-> ScalarField("tanggalFaktur", text),
         jumlahDpp     |-> ScalarField("jumlahDpp", text),
         jumlahPpn     |-> ScalarField("jumlahPpn", text)]

parse_pdf_fields(text) == ParseNormalized(preprocess_ocr_text(text))

-----------------------------------------------------------------------------
(* 4.3 Reference Fetcher *)

\* The children of the root of MOCK_DJP_XML, as ET.fromstring parses them.  The
\* text of detailTransaksi, which has children of its own, is its leading newline.
MOCK_DJP_XML ==
    << [tag |-> "kdJenisTransaksi",     text |-> Some("07")],
       [tag |-> "fgPengganti",          text |-> Some("0")],
       [tag |-> "nomorFaktur",          text |-> Some("0700002212345678")],
       [tag |-> "tanggalFaktur",        text |-> Some("01/04/2022")],
       [tag |-> "npwpPenjual",          text |-> Some("012345678012000")],
       [tag |-> "namaPenjual",          text |-> Some("PT ABC")],
       [tag |-> "alamatPenjual",        text |-> Some("Jalan Gatot Subroto No. 40A, Senayan, Kebayoran Baru, Jakarta Selatan 12910")],
       [tag |-> "npwpLawanTransaksi",   text |-> Some("023456789217000")],
       [tag |-> "namaLawanTransaksi",   text |-> Some("PT XYZ")],
       [tag |-> "alamatLawanTransaksi", text |-> Some("Jalan Kuda Laut No. 1, Sungai Jodoh, Batu Ampar, Batam 29444")],
       [tag |-> "jumlahDpp",            text |-> Some("15000000")],
       [tag |-> "jumlahPpn",            text |-> Some("1650000")],
       [tag |-> "jumlahPpnBm",          text |-> Some("0")],
       [tag |-> "statusApproval",       text |-> Some("Faktur Valid, Sudah Diapprove oleh DJP")],
       [tag |-> "statusFaktur",         text |-> Some("Faktur Pajak Normal")],
       [tag |-> "referensi",            text |-> Some("123/ABC/IV/2022")],
       [tag |-> "detailTransaksi",      text |-> Some("\n")] >>

field_mapping ==
    [npwpPenjual   |-> "npwpPenjual",
     namaPenjual   |-> "namaPenjual",
     npwpPembeli   |-> "npwpLawanTransaksi",
     namaPembeli   |-> "namaLawanTransaksi",
     nomorFaktur   |-> "nomorFaktur",
     tanggalFaktur |-> "tanggalFaktur",
     jumlahDpp     |-> "jumlahDpp",
     jumlahPpn     |-> "jumlahPpn"]

\* root.find(tag) followed by element.text: the first child with that tag
ElementText(root, xml_field) ==
    IF \E i \in 1..Len(root) : root[i].tag = xml_field
    THEN LET first == CHOOSE i \in 1..Len(root) :
                         /\ root[i].tag = xml_field
                         /\ \A j \in 1..(i - 1) : root[j].tag # xml_field
         IN  root[first].text
    ELSE None

\* the record does not depend on qr_url; the static document always parses
fetch_djp_data(url) ==
    [pdf_field \in DOMAIN field_mapping |-> ElementText(MOCK_DJP_XML, field_mapping[pdf_field])]

-----------------------------------------------------------------------------
(* 4.4 Reconciler *)

\* dict.get(key)
dict_get(d, key) == IF key \in DOMAIN d THEN d[key] ELSE None

Deviation(field, pdf_value, djp_value, deviation_type) ==
    [field |-> field, pdf_value |-> pdf_value, djp_api_value |-> djp_value,
     deviation_type |-> deviation_type]

\* a mutant of Classify: absence tested by truthiness, "" counts as absent
Classify_truthy(pdf_value, djp_value) ==
    IF Falsy(pdf_value) /\ ~Falsy(djp_value) THEN "missing_in_pdf"
    ELSE IF ~Falsy(pdf_value) /\ Falsy(djp_value) THEN "missing_in_api"
    ELSE IF pdf_value # djp_value THEN "mismatch"
    ELSE "continue"

\* a mutant of Classify: the missing_in_api branch is lost
Classify_no_api(pdf_value, djp_value) ==
    IF pdf_value = None /\ djp_value # None THEN "missing_in_pdf"
    ELSE IF pdf_value # djp_value THEN "mismatch"
    ELSE "continue"

\* the branch compare_fields takes for one field: a deviation type or "continue"
Classify(pdf_value, djp_value) ==
    IF pdf_value = None /\ djp_value # None THEN "missing_in_pdf"
    ELSE IF pdf_value # None /\ djp_value = None THEN "missing_in_api"
    ELSE IF pdf_value # djp_value THEN "mismatch"
    ELSE "continue"

RECURSIVE CompareFrom(_, _, _)
\* the loop of compare_fields from the i-th field of the fixed list on
CompareFrom(pdf, djp, i) ==
    IF i > Len(FIELDS) THEN <<>>
    ELSE LET field          == FIELDS[i]
             pdf_value      == dict_get(pdf, field)
             djp_value      == dict_get(djp, field)
             deviation_type == Classify(pdf_value, djp_value)
         IN  (IF deviation_type = "continue" THEN <<>>
              ELSE << Deviation(field, pdf_value, djp_value, deviation_type) >>)
             \o CompareFrom(pdf, djp, i + 1)

\* a mutant of compare_fields: the keys of the inputs are compared, not the fixed list
compare_fields_by_keys(pdf, djp) ==
    LET extra == (DOMAIN pdf \cup DOMAIN djp) \ FieldNames
        more  == IF extra = {} THEN <<>>
                 ELSE LET key == CHOOSE k \in extra : TRUE
                          t   == Classify(dict_get(pdf, key), dict_get(djp, key))
                      IN  IF t = "continue" THEN <<>>
                          ELSE << Deviation(key, dict_get(pdf, key), dict_get(djp, key), t) >>
    IN  CompareFrom(pdf, djp, 1) \o more

compare_fields(pdf, djp) == CompareFrom(pdf, djp, 1)

-----------------------------------------------------------------------------
(* 4.5 Validation Orchestrator and the HTTP endpoint *)

is_image_file(name) ==
    \/ str_endswith(str_lower(name), ".jpg")
    \/ str_endswith(str_lower(name), ".jpeg")
    \/ str_endswith(str_lower(name), ".png")

\* a mutant of is_pdf_file: ".pdf" anywhere in the name
is_pdf_file_contains(name) == str_find(str_lower(name), ".pdf", 1) # 0

is_pdf_file(name) == str_endswith(str_lower(name), ".pdf")

HTTPException(status_code, detail) ==
    [kind |-> "error", type |-> "HTTPException", status_code |-> status_code,
     detail |-> detail]

\* any exception that is not an HTTPException
OtherException ==
    [kind |-> "error", type |-> "Exception", status_code |-> 0, detail |-> ""]

\* a mutant of validate_except: without `except HTTPException: raise`
validate_except_all(exc) == HTTPException(500, "Internal server error during validation")

\* the except clauses of validate_efaktur
validate_except(exc) ==
    IF exc.type = "HTTPException" THEN exc
    ELSE HTTPException(500, "Internal server error during validation")

\* the except clauses of the endpoint
endpoint_except(exc) ==
    IF exc.type = "HTTPException" THEN exc
    ELSE HTTPException(500, "Failed to process uploaded file")

\* what the caller sees when `exc` is raised inside validate_efaktur
Raised(exc) ==
    IF via = "endpoint" THEN endpoint_except(validate_except(exc))
    ELSE validate_except(exc)

\* the first decoded QR payload that contains 'http', else None
FirstHttp(decoded) ==
    LET hits == {i \in 1..Len(decoded) : str_find(decoded[i], "http", 1) # 0}
    IN  IF hits = {} THEN None ELSE Some(decoded[MinOf(hits)])

\* a mutant of ResultStatus: one deviation still counts as a success
ResultStatus_many(devs) ==
    IF Len(devs) > 1 THEN "validated_with_deviations" ELSE "validated_successfully"

ResultStatus(devs) ==
    IF devs # <<>> THEN "validated_with_deviations" ELSE "validated_successfully"

ResultMessage(devs) ==
    IF devs # <<>> THEN <<"Found ", Len(devs), " deviation(s) in e-Faktur data">>
    ELSE <<"E-Faktur data matches DJP records">>

\* the dict validate_efaktur returns
Result(devs, djp, pdf, text, url) ==
    [kind               |-> "result",
     status             |-> ResultStatus(devs),
     message            |-> ResultMessage(devs),
     validation_results |->
        [deviations     |-> devs,
         validated_data |-> djp,
         extracted_data |-> pdf,
         raw_ocr_text   |-> text,
         qr_url         |-> url]]

NoResponse == [kind |-> "none"]

\* nothing of a call is left: the state between two requests
Blank ==
    /\ via = "none"
    /\ filename = ""
    /\ calls = <<>>
    /\ raw_ocr_text = None
    /\ normalized = ""
    /\ pdf_data = <<>>
    /\ qr_url = None
    /\ djp_data = <<>>
    /\ deviations = <<>>
    /\ swapped = <<>>
    /\ response = NoResponse

-----------------------------------------------------------------------------
(* What the excluded collaborators may hand to the core *)

FileNames ==
    {"a.PDF", "b.jpg", "c.Jpeg", "d.png",
     "e.txt", "pdf", "f.pdf.txt", "g.png.exe", "h.jpg_", ""}

NomorLines ==
    {"Kode dan Nomor Seri Faktur Pajak : 070.000-22.12345678\n",
     "Nomor Faktur 070.000-22.12345679\n"}

PenjualLines ==
    {"Pengusaha Kena Pajak\nNama : PT ABC\nNPWP : 01.234.567.8-012.000\n",
     "Nama : PT ABC\nNPWP | 01.234.567.8-012.000\n"}

PembeliLines ==
    {"Pembeli Barang Kena Pajak\nNama : PT XYZ\nNPWP : 02.345.678.9-217.000\n",
     "Nama : PT XYZ\nNPWP : 02.345.678.9-217.000\n",
     ""}

AmountLines ==
    {"Dasar Pengenaan Pajak 15.000.000\nTotal PPN 1.650.000\n",
     "Dasar Pengenaan Pajak 15.000.000,00\n"}

DateLines ==
    {"Jakarta, 01 April 2022", "Tanggal Faktur 01/04/2022"}

\* the texts of documents the text collaborator may return
DocTexts ==
    {n \o s \o b \o a \o d :
        n \in NomorLines, s \in PenjualLines, b \in PembeliLines,
        a \in AmountLines, d \in DateLines}

\* the text collaborator raises (ok = FALSE) or returns a text, possibly empty
TextOutcomes ==
    {[ok |-> FALSE, text |-> ""]} \cup {[ok |-> TRUE, text |-> t] : t \in {""} \cup DocTexts}

\* the QR collaborator raises (ok = FALSE) or returns the decoded payloads
QrOutcomes ==
    {[ok |-> FALSE, decoded |-> <<>>]} \cup
    {[ok |-> TRUE, decoded |-> d] :
        d \in {<<>>, <<"0700002212345678">>,
               <<"0700002212345678", "http://svc.efaktur.pajak.go.id/validasi/faktur/1">>}}

-----------------------------------------------------------------------------
(* The service: one request at a time, from the endpoint or by a direct call *)

Init ==
    /\ pc = "idle"
    /\ Blank

\* POST /validate-efaktur: the extension check of the endpoint
EndpointRequest ==
    /\ pc = "idle"
    /\ \E name \in FileNames :
        /\ filename' = name
        /\ via' = "endpoint"
        /\ IF ~(is_pdf_file(name) \/ is_image_file(name))
           THEN /\ response' = HTTPException(400, "Only PDF and JPG/PNG files are supported")
                /\ pc' = "responded"
           ELSE /\ response' = response
                /\ pc' = "read"
    /\ UNCHANGED <<calls, raw_ocr_text, normalized, pdf_data, qr_url, djp_data,
                   deviations, swapped>>

\* `await file.read()`: it returns the bytes, or fails with an exception
FileRead ==
    /\ pc = "read"
    /\ calls' = Append(calls, "file.read")
    /\ \/ /\ pc' = "dispatch"
          /\ response' = response
       \/ /\ pc' = "responded"
          /\ response' = endpoint_except(OtherException)
    /\ UNCHANGED <<via, filename, raw_ocr_text, normalized, pdf_data, qr_url,
                   djp_data, deviations, swapped>>

\* validator.validate_efaktur(file_content, filename) called directly
DirectCall ==
    /\ pc = "idle"
    /\ \E name \in FileNames :
        /\ filename' = name
        /\ via' = "direct"
    /\ pc' = "dispatch"
    /\ UNCHANGED <<calls, raw_ocr_text, normalized, pdf_data, qr_url, djp_data,
                   deviations, swapped, response>>

\* extract_text_from_xxx and the `if not text` test that follows it
ExtractText(extractor, failed, empty) ==
    /\ calls' = Append(calls, extractor)
    /\ \E out \in TextOutcomes :
        IF ~out.ok
        THEN /\ raw_ocr_text' = raw_ocr_text
             /\ response' = Raised(HTTPException(400, failed))
             /\ pc' = "responded"
        ELSE /\ raw_ocr_text' = Some(out.text)
             /\ IF out.text = ""
                THEN /\ response' = Raised(HTTPException(400, empty))
                     /\ pc' = "responded"
                ELSE /\ response' = response
                     /\ pc' = "parse"
    /\ UNCHANGED <<via, filename, normalized, pdf_data, qr_url, djp_data,
                   deviations, swapped>>

ExtractPdfText ==
    /\ pc = "dispatch"
    /\ is_pdf_file(filename)
    /\ ExtractText("extract_text_from_pdf", "Failed to extract text from PDF",
                   "No text found in PDF")

ExtractImageText ==
    /\ pc = "dispatch"
    /\ ~is_pdf_file(filename)
    /\ is_image_file(filename)
    /\ ExtractText("extract_text_from_image", "Failed to extract text from image",
                   "No text found in image")

\* the else branch of the dispatch
RejectUnsupported ==
    /\ pc = "dispatch"
    /\ ~is_pdf_file(filename)
    /\ ~is_image_file(filename)
    /\ response' = Raised(HTTPException(400, "Only PDF and JPG/PNG files are supported"))
    /\ pc' = "responded"
    /\ UNCHANGED <<via, filename, calls, raw_ocr_text, normalized, pdf_data, qr_url,
                   djp_data, deviations, swapped>>

\* pdf_data = self.parse_pdf_fields(text)
ParseFields ==
    /\ pc = "parse"
    /\ calls' = Append(calls, "parse_pdf_fields")
    /\ normalized' = preprocess_ocr_text(raw_ocr_text[1])
    /\ pdf_data' = ParseNormalized(normalized')
    /\ pc' = "qr"
    /\ UNCHANGED <<via, filename, raw_ocr_text, qr_url, djp_data, deviations,
                   swapped, response>>

\* qr_url = self.extract_qr_code_from_xxx(file_content): exceptions become None
ExtractQr ==
    /\ pc = "qr"
    /\ calls' = Append(calls, IF is_pdf_file(filename) THEN "extract_qr_code_from_pdf"
                              ELSE "extract_qr_code_from_image")
    /\ \E out \in QrOutcomes :
        qr_url' = IF out.ok THEN FirstHttp(out.decoded) ELSE None
    /\ pc' = "fetch"
    /\ UNCHANGED <<via, filename, raw_ocr_text, normalized, pdf_data, djp_data,
                   deviations, swapped, response>>

\* djp_data = self.fetch_djp_data(qr_url)
FetchDjp ==
    /\ pc = "fetch"
    /\ calls' = Append(calls, "fetch_djp_data")
    /\ djp_data' = fetch_djp_data(qr_url)
    /\ pc' = "compare"
    /\ UNCHANGED <<via, filename, raw_ocr_text, normalized, pdf_data, qr_url,
                   deviations, swapped, response>>

\* deviations = self.compare_fields(pdf_data, djp_data)
Compare ==
    /\ pc = "compare"
    /\ calls' = Append(calls, "compare_fields")
    /\ deviations' = compare_fields(pdf_data, djp_data)
    /\ pc' = "assemble"
    /\ UNCHANGED <<via, filename, raw_ocr_text, normalized, pdf_data, qr_url,
                   djp_data, swapped, response>>

\* the status, the message and the returned dict
Assemble ==
    /\ pc = "assemble"
    /\ response' = Result(deviations, djp_data, pdf_data, raw_ocr_text[1], qr_url)
    /\ pc' = "responded"
    /\ UNCHANGED <<via, filename, calls, raw_ocr_text, normalized, pdf_data, qr_url,
                   djp_data, deviations, swapped>>

\* the call is over; nothing of it outlives the request
Return ==
    /\ pc = "responded"
    /\ pc' = "idle"
    /\ via' = "none"
    /\ filename' = ""
    /\ calls' = <<>>
    /\ raw_ocr_text' = None
    /\ normalized' = ""
    /\ pdf_data' = <<>>
    /\ qr_url' = None
    /\ djp_data' = <<>>
    /\ deviations' = <<>>
    /\ swapped' = <<>>
    /\ response' = NoResponse

Next ==
    \/ EndpointRequest
    \/ FileRead
    \/ DirectCall
    \/ ExtractPdfText
    \/ ExtractImageText
    \/ RejectUnsupported
    \/ ParseFields
    \/ ExtractQr
    \/ FetchDjp
    \/ Compare
    \/ Assemble
    \/ Return

Spec == Init /\ [][Next]_vars

-----------------------------------------------------------------------------
(* The pure components on their own: the inputs are drawn in the initial   *)
(* state and one action applies the function.                              *)

RECURSIVE Concats(_, _)
\* the concatenations of at most n fragments
Concats(frags, n) ==
    IF n = 0 THEN {""}
    ELSE LET shorter == Concats(frags, n - 1)
         IN  shorter \cup {t \o f : t \in shorter, f \in frags}

\* a call of a pure function is about to be made on the inputs of the state
CallState ==
    /\ pc = "call"
    /\ via = "none"
    /\ filename = ""
    /\ calls = <<>>
    /\ qr_url = None
    /\ response = NoResponse

(* preprocess_ocr_text *)

MaxNormFrags == 3

NormFrags ==
    {"NPWP", " ", "|", ":", "\t", "\n", "\r\n", "é", "Pa", "lak", "Sen", "Faktur",
     "NIK", "Paspor"}

InitNorm ==
    /\ CallState
    /\ raw_ocr_text \in {Some(t) : t \in Concats(NormFrags, MaxNormFrags)}
    /\ normalized = ""
    /\ pdf_data = <<>>
    /\ djp_data = <<>>
    /\ deviations = <<>>
    /\ swapped = <<>>

PreprocessCall ==
    /\ pc = "call"
    /\ normalized' = preprocess_ocr_text(raw_ocr_text[1])
    /\ pc' = "returned"
    /\ UNCHANGED <<via, filename, calls, raw_ocr_text, pdf_data, qr_url, djp_data,
                   deviations, swapped, response>>

\* preprocess_ocr_text once more, on the text the first call returned
PreprocessAgain ==
    /\ pc = "returned"
    /\ raw_ocr_text' = Some(normalized)
    /\ normalized' = preprocess_ocr_text(normalized)
    /\ pc' = "again"
    /\ UNCHANGED <<via, filename, calls, pdf_data, qr_url, djp_data,
                   deviations, swapped, response>>

NextNorm ==
    \/ PreprocessCall
    \/ PreprocessAgain

SpecNorm == InitNorm /\ [][NextNorm]_vars

(* parse_pdf_fields *)

ParseCall ==
    /\ pc = "call"
    /\ normalized' = preprocess_ocr_text(raw_ocr_text[1])
    /\ pdf_data' = ParseNormalized(normalized')
    /\ pc' = "returned"
    /\ UNCHANGED <<via, filename, calls, raw_ocr_text, qr_url, djp_data,
                   deviations, swapped, response>>

InitParseOn(texts) ==
    /\ CallState
    /\ raw_ocr_text \in {Some(t) : t \in texts}
    /\ normalized = ""
    /\ pdf_data = <<>>
    /\ djp_data = <<>>
    /\ deviations = <<>>
    /\ swapped = <<>>

MaxParseFrags == 2

ParseFrags ==
    {"NPWP: 01.2-3\n", "NPWP: ...", "NPWP-", "Nama: PT ABC\n", "Nama: abc", "Nama : ",
     "Pengusaha Kena Pajak\n", "Pembeli Barang Kena Pajak\n",
     "Nomor Faktur: 070-22 1.", "Nomor Faktur: -", "Tanggal Faktur01/04/2022",
     "Dasar Pengenaan Pajak: ...", "Dasar Pengenaan Pajak 15.000.000,00\n",
     "Total PPN ,", "Total PPN 1.650", "é", " "}

InitParse == InitParseOn(Concats(ParseFrags, MaxParseFrags))

SpecParse == InitParse /\ [][ParseCall]_vars

MaxDateFrags == 3

DateFrags ==
    {"Tanggal Faktur", " ", ": ", "01/04/2022", "3/12/1999", ", 1 APRIL 2022",
     ",\n12 mei  2021", ", 1 FOO 2022", ", ", "Jakarta"}

InitDate == InitParseOn(Concats(DateFrags, MaxDateFrags))

SpecDate == InitDate /\ [][ParseCall]_vars

MaxBuyerFrags == 3

BuyerFrags ==
    {"NPWP: 01.2-3\n", "NPWP : 9 ", "NPWP: ...", "Nama: PT ABC\n", "Nama : CV X ", "Nama: ",
     "Pengusaha Kena Pajak\n", "PEMBELI BARANG KENA PAJAK\n"}

InitBuyer == InitParseOn(Concats(BuyerFrags, MaxBuyerFrags))

SpecBuyer == InitBuyer /\ [][ParseCall]_vars

MaxSectionFrags == 4

SectionFrags ==
    {"Pengusaha Kena Pajak\n", "pembeli barang KENA PAJAK\n", "NPWP: 01.2-3\n", "NPWP : 9\n",
     "Nama: PT ABC\n", "Nama : CV X\n"}

InitSection == InitParseOn(Concats(SectionFrags, MaxSectionFrags))

SpecSection == InitSection /\ [][ParseCall]_vars

(* compare_fields *)

MaxVaried == 1

\* the eight fields and one key that is not in the fixed list
CompareKeys == FieldNames \cup {"alamatPenjual"}

CompareValues == {None, Some(""), Some("1650000"), Some("1.650.000")}

\* the dict `base` with the keys of `over` set to its values
Override(base, over) ==
    [k \in DOMAIN base \cup DOMAIN over |-> IF k \in DOMAIN over THEN over[k] ELSE base[k]]

\* fields as an extraction may leave them: some absent, some spelled differently
PartialFields ==
    [npwpPenjual   |-> Some("012345678012000"),
     namaPenjual   |-> Some("PT ABC NPWP"),
     npwpPembeli   |-> None,
     namaPembeli   |-> None,
     nomorFaktur   |-> Some("0700002212345678"),
     tanggalFaktur |-> Some("1/4/2022"),
     jumlahDpp     |-> Some("1500000000"),
     jumlahPpn     |-> Some("1.650.000")]

\* an empty dict, the complete reference record and a partial extraction
CompareBases == {<<>>, fetch_djp_data(None), PartialFields}

\* the sets of keys on which a pair of dicts varies from its bases
VariedKeySets == {K \in SUBSET CompareKeys : Cardinality(K) <= MaxVaried}

\* pairs of dicts that vary from a base on at most MaxVaried keys
InitCompare ==
    /\ CallState
    /\ raw_ocr_text = None
    /\ normalized = ""
    /\ \E K \in VariedKeySets :
        \E b1 \in CompareBases, b2 \in CompareBases :
            \E o1 \in [K -> CompareValues], o2 \in [K -> CompareValues] :
                /\ pdf_data = Override(b1, o1)
                /\ djp_data = Override(b2, o2)
    /\ deviations = <<>>
    /\ swapped = <<>>

\* compare_fields(pdf_data, djp_data)
CompareCall ==
    /\ pc = "call"
    /\ deviations' = compare_fields(pdf_data, djp_data)
    /\ pc' = "compared"
    /\ UNCHANGED <<via, filename, calls, raw_ocr_text, normalized, pdf_data, qr_url,
                   djp_data, swapped, response>>

\* compare_fields with the two records exchanged
CompareSwappedCall ==
    /\ pc = "compared"
    /\ swapped' = compare_fields(djp_data, pdf_data)
    /\ pc' = "returned"
    /\ UNCHANGED <<via, filename, calls, raw_ocr_text, normalized, pdf_data, qr_url,
                   djp_data, deviations, response>>

NextCompare ==
    \/ CompareCall
    \/ CompareSwappedCall

SpecCompare == InitCompare /\ [][NextCompare]_vars

-----------------------------------------------------------------------------
(* Properties of the orchestrator, checked under Spec *)

\* C1: every call of validate_efaktur that returns a result has status
\* "validated_successfully" exactly when the deviations of the result are empty
\* and "validated_with_deviations" otherwise; no other status is returned.
C1_StatusIffNoDeviations ==
    (pc = "responded" /\ response.kind = "result") =>
        LET devs == response.validation_results.deviations
        IN  /\ response.status \in {"validated_successfully", "validated_with_deviations"}
            /\ (response.status = "validated_successfully") <=> (devs = <<>>)
            /\ (response.status = "validated_with_deviations") <=> (Len(devs) >= 1)

\* a document that matches the reference record on all 8 fields was validated
C1_Witness ==
    /\ pc = "responded"
    /\ response.kind = "result"
    /\ response.status = "validated_successfully"
    /\ response.validation_results.deviations = <<>>
    /\ response.validation_results.extracted_data = response.validation_results.validated_data

\* the extension of a filename: from its last dot on, "" when it has no dot
Extension(name) ==
    LET dots == {i \in 1..Len(name) : Ch(name, i) = "."}
    IN  IF dots = {} THEN ""
        ELSE SubSeq(name, CHOOSE i \in dots : \A j \in dots : j <= i, Len(name))

SupportedExtension(name) ==
    \E ext \in {".pdf", ".jpg", ".jpeg", ".png"} : str_lower(Extension(name)) = ext

\* the collaborators and components of the pipeline
PipelineStages ==
    {"extract_text_from_pdf", "extract_text_from_image", "parse_pdf_fields",
     "extract_qr_code_from_pdf", "extract_qr_code_from_image", "fetch_djp_data",
     "compare_fields"}

StagesCalled == {calls[i] : i \in 1..Len(calls)} \cap PipelineStages

\* C3: a request whose extension is not .pdf, .jpg, .jpeg or .png (in any case)
\* is rejected with a 4xx error before any text extraction, QR extraction, field
\* extraction, reference fetch or reconciliation, at the endpoint and in a direct
\* call, and no result is produced.
C3_UnsupportedRejectedFirst ==
    (pc # "idle" /\ ~SupportedExtension(filename)) =>
        /\ pc \in {"dispatch", "responded"}
        /\ pc = "dispatch" => via = "direct"
        /\ calls = <<>>
        /\ raw_ocr_text = None /\ pdf_data = <<>> /\ djp_data = <<>> /\ deviations = <<>>
        /\ pc = "responded" =>
              /\ response.kind = "error"
              /\ response.status_code \in 400..499

\* a direct call with a name that only contains ".pdf" was rejected with 400
C3_Witness ==
    /\ pc = "responded"
    /\ via = "direct"
    /\ filename = "f.pdf.txt"
    /\ response = HTTPException(400, "Only PDF and JPG/PNG files are supported")
    /\ calls = <<>>

\* the keys of a complete result
CompleteResult(r) ==
    /\ DOMAIN r = {"kind", "status", "message", "validation_results"}
    /\ DOMAIN r.validation_results =
          {"deviations", "validated_data", "extracted_data", "raw_ocr_text", "qr_url"}
    /\ DOMAIN r.validation_results.extracted_data = FieldNames
    /\ DOMAIN r.validation_results.validated_data = FieldNames
    /\ r.validation_results.raw_ocr_text # ""

\* C4: when the text collaborator returns empty text, the call is rejected with
\* a 4xx error (not turned into a 5xx), the field extractor, the QR extraction,
\* the reference fetcher and the reconciler are never invoked and nothing of a
\* result is produced; every call ends either in a complete result or rejected.
C4_EmptyTextRejected ==
    /\ raw_ocr_text = Some("") =>
          /\ pc = "responded"
          /\ response.kind = "error"
          /\ response.status_code \in 400..499
          /\ StagesCalled \subseteq {"extract_text_from_pdf", "extract_text_from_image"}
          /\ pdf_data = <<>> /\ djp_data = <<>> /\ deviations = <<>> /\ qr_url = None
    /\ pc = "responded" =>
          \/ /\ response.kind = "result"
             /\ CompleteResult(response)
             /\ Len(calls) >= 5
          \/ /\ response.kind = "error"
             /\ DOMAIN response = {"kind", "type", "status_code", "detail"}
             /\ response.status_code \in 400..599

\* the endpoint answered 400 for an image in which no text was found
C4_Witness ==
    /\ pc = "responded"
    /\ via = "endpoint"
    /\ raw_ocr_text = Some("")
    /\ calls = <<"file.read", "extract_text_from_image">>
    /\ response = HTTPException(400, "No text found in image")

-----------------------------------------------------------------------------
(* Properties of the reconciler, checked under SpecCompare *)

\* the value a dict holds for a key, None when the key is missing
ValueOf(d, key) == IF key \in DOMAIN d THEN d[key] ELSE None

\* the places of the deviations reported for a field
PlacesOf(devs, field) == {i \in 1..Len(devs) : devs[i].field = field}

\* the deviation the taxonomy of 4.4 asks for, "none" when the field is skipped
Expected(e, r) ==
    IF e = None /\ r = None THEN "none"
    ELSE IF e = None THEN "missing_in_pdf"
    ELSE IF r = None THEN "missing_in_api"
    ELSE IF e[1] # r[1] THEN "mismatch"
    ELSE "none"

\* C2: per field, compare_fields reports nothing when both values are absent,
\* missing_in_pdf when only the extracted value is absent, missing_in_api when
\* only the reference value is absent, mismatch when both are present and differ
\* as strings, nothing when they are equal; a field is reported exactly in the
\* three deviation cases and the deviation carries the two compared values.
C2_DeviationTaxonomy ==
    pc \in {"compared", "returned"} =>
        \A field \in FieldNames :
            LET e  == ValueOf(pdf_data, field)
                r  == ValueOf(djp_data, field)
                at == PlacesOf(deviations, field)
            IN  IF Expected(e, r) = "none" THEN at = {}
                ELSE /\ Cardinality(at) = 1
                     /\ \A i \in at :
                           /\ deviations[i].deviation_type = Expected(e, r)
                           /\ deviations[i].pdf_value = e
                           /\ deviations[i].djp_api_value = r

DeviationTypes(devs) == {devs[i].deviation_type : i \in 1..Len(devs)}

\* one comparison reported all three deviation types, among them a mismatch of
\* two amounts that are equal as numbers but not as strings
C2_Witness ==
    /\ pc = "compared"
    /\ DeviationTypes(deviations) = {"missing_in_pdf", "missing_in_api", "mismatch"}
    /\ \E i \in 1..Len(deviations) :
          /\ deviations[i].pdf_value = Some("1.650.000")
          /\ deviations[i].djp_api_value = Some("1650000")
          /\ deviations[i].deviation_type = "mismatch"
    /\ \E field \in FieldNames :
          /\ ValueOf(pdf_data, field) # None
          /\ ValueOf(pdf_data, field) = ValueOf(djp_data, field)

Flip(deviation_type) ==
    IF deviation_type = "missing_in_pdf" THEN "missing_in_api"
    ELSE IF deviation_type = "missing_in_api" THEN "missing_in_pdf"
    ELSE deviation_type

\* C6: compare_fields(R, E) reports the same fields in the same order as
\* compare_fields(E, R), with the two values exchanged, missing_in_pdf and
\* missing_in_api exchanged, and mismatch unchanged.
C6_SwapFlipsMissing ==
    pc = "returned" =>
        /\ Len(swapped) = Len(deviations)
        /\ \A i \in 1..Len(deviations) :
              /\ swapped[i].field = deviations[i].field
              /\ swapped[i].pdf_value = deviations[i].djp_api_value
              /\ swapped[i].djp_api_value = deviations[i].pdf_value
              /\ swapped[i].deviation_type = Flip(deviations[i].deviation_type)

\* both calls were made on records that differ in all three ways
C6_Witness ==
    /\ pc = "returned"
    /\ DeviationTypes(deviations) = {"missing_in_pdf", "missing_in_api", "mismatch"}
    /\ DeviationTypes(swapped) = {"missing_in_pdf", "missing_in_api", "mismatch"}
    /\ swapped # deviations

\* the fixed order of the 8 fields, as the claim lists it
FixedOrder ==
    <<"npwpPenjual", "namaPenjual", "npwpPembeli", "namaPembeli",
      "nomorFaktur", "tanggalFaktur", "jumlahDpp", "jumlahPpn">>

PlaceInOrder(field) == CHOOSE k \in 1..Len(FixedOrder) : FixedOrder[k] = field

\* C7: the deviations are at most 8, name each field at most once, name only
\* fields of the fixed list and follow its order; a key of the inputs outside
\* the list never produces a deviation.
C7_FixedOrderAtMostEight ==
    pc \in {"compared", "returned"} =>
        /\ Len(deviations) <= 8
        /\ \A i \in 1..Len(deviations) :
              \E k \in 1..Len(FixedOrder) : FixedOrder[k] = deviations[i].field
        /\ \A i \in 1..Len(deviations) : \A j \in 1..Len(deviations) :
              i < j => PlaceInOrder(deviations[i].field) < PlaceInOrder(deviations[j].field)

\* all 8 fields deviate and the inputs differ on a key outside the list
C7_Witness ==
    /\ pc = "compared"
    /\ Len(deviations) = 8
    /\ "alamatPenjual" \in DOMAIN pdf_data
    /\ ValueOf(pdf_data, "alamatPenjual") # ValueOf(djp_data, "alamatPenjual")

-----------------------------------------------------------------------------
(* Properties of the normalizer, checked under SpecNorm *)

\* C5: preprocess_ocr_text is idempotent: applied to its own output it returns
\* that output unchanged, for every text, including the texts where removing a
\* non-ASCII character or collapsing whitespace joins the pieces of an entry
\* of the substitution table.
C5_NormalizeTwice == pc = "again" => normalized = raw_ocr_text[1]

-----------------------------------------------------------------------------
(* Properties of the field extraction, checked under SpecParse, SpecDate and
   SpecBuyer *)

\* C10: parse_pdf_fields returns a mapping with all 8 field names as keys, each
\* value absent or a string, and a field for which matching found no value is
\* absent, never the empty string.
C10_AbsentNeverEmpty ==
    pc = "returned" =>
        /\ DOMAIN pdf_data = FieldNames
        /\ \A field \in FieldNames :
              \/ pdf_data[field] = None
              \/ /\ Len(pdf_data[field]) = 1
                 /\ pdf_data[field][1] # ""

\* a date DD/MM/YYYY after the label "Tanggal Faktur" and at least one separator
LabelledDate == << AltG(LitI("Tanggal Faktur") \o Plus(Sep), DateItems) >>

\* a date DD/MM/YYYY anywhere
AnyDate == << AltG(<<>>, DateItems) >>

\* the 12 Indonesian month names in calendar order
MonthNames ==
    <<"JANUARI", "FEBRUARI", "MARET", "APRIL", "MEI", "JUNI",
      "JULI", "AGUSTUS", "SEPTEMBER", "OKTOBER", "NOVEMBER", "DESEMBER">>

\* two decimal digits for a number below 100
TwoDigits(n) == Ch("0123456789", (n \div 10) + 1) \o Ch("0123456789", (n % 10) + 1)

\* ", <day> <word> <year>", the first place of the text that has this shape
DayMonthYear(text) == re_search(DateFallbackPattern, text)

\* the date a ", <day> <month name> <year>" stands for, None for an unknown month
DateOfNames(text) ==
    LET m     == DayMonthYear(text)
        day   == Group(text, DateFallbackPattern, m, 1)
        name  == str_upper(Group(text, DateFallbackPattern, m, 2))
        year  == Group(text, DateFallbackPattern, m, 3)
        known == {k \in 1..Len(MonthNames) : MonthNames[k] = name}
    IN  IF known = {} THEN None
        ELSE Some((IF Len(day) = 1 THEN "0" \o day ELSE day) \o "/"
                  \o TwoDigits(CHOOSE k \in known : TRUE) \o "/" \o year)

\* C8: a text with the label "Tanggal Faktur", a separator and a date
\* DD/MM/YYYY (its only date) yields that date as tanggalFaktur; when the
\* primary pattern does not match and the text has ", <day> <month> <year>",
\* tanggalFaktur is the zero-padded date built with the month table, and it is
\* absent when the month name is not in the table.
C8_DateExtraction ==
    pc = "returned" =>
        LET labelled == re_search(LabelledDate, normalized)
            primary  == re_search(patterns.tanggalFaktur, normalized)
        IN  /\ (labelled.ok /\ Len(re_finditer(AnyDate, normalized)) = 1)
                  => pdf_data.tanggalFaktur
                        = Some(Group(normalized, LabelledDate, labelled, 1))
            /\ (~primary.ok /\ DayMonthYear(normalized).ok)
                  => pdf_data.tanggalFaktur = DateOfNames(normalized)

\* whether `label` stands at position p of the text
LabelAt(text, label, p) ==
    /\ p + Len(label) - 1 <= Len(text)
    /\ SubSeq(text, p, p + Len(label) - 1) = label

\* the positions where a value of `chars` can start after the label at p:
\* only separators lie between the label and the value
ValueStarts(text, label, chars, p) ==
    {q \in (p + Len(label))..Len(text) :
        /\ Ch(text, q) \in chars
        /\ \A i \in (p + Len(label))..(q - 1) : Ch(text, i) \in Sep}

\* the last position of the value of the occurrence at p: the longest run of
\* `chars` that starts after as many separators as possible
ValueEnd(text, label, chars, p) ==
    LET starts == ValueStarts(text, label, chars, p)
        q      == CHOOSE x \in starts : \A y \in starts : y <= x
    IN  CHOOSE x \in q..Len(text) :
            /\ \A i \in q..x : Ch(text, i) \in chars
            /\ x = Len(text) \/ Ch(text, x + 1) \notin chars

\* the value of the occurrence at p
OccurrenceValue(text, label, chars, p) ==
    LET starts == ValueStarts(text, label, chars, p)
        q      == CHOOSE x \in starts : \A y \in starts : y <= x
    IN  SubSeq(text, q, ValueEnd(text, label, chars, p))

RECURSIVE OccurrencesFrom(_, _, _, _)
\* the positions of the occurrences of a labelled value, from left to right;
\* an occurrence starts after the value of the one before it
OccurrencesFrom(text, label, chars, from) ==
    LET found == {p \in from..Len(text) :
                     LabelAt(text, label, p) /\ ValueStarts(text, label, chars, p) # {}}
    IN  IF found = {} THEN <<>>
        ELSE LET p == CHOOSE x \in found : \A y \in found : x <= y
             IN  <<p>> \o OccurrencesFrom(text, label, chars,
                                          ValueEnd(text, label, chars, p) + 1)

Occurrences(text, label, chars) == OccurrencesFrom(text, label, chars, 1)

DigitsOf(s) == Join([i \in 1..Len(s) |-> IF Ch(s, i) \in Digit THEN Ch(s, i) ELSE ""])

\* the tax-ID of occurrence n (from 0) of "NPWP" in a text, None when there is none
NpwpOccurrence(text, n) ==
    LET all == Occurrences(text, "NPWP", NpwpChars)
    IN  IF Len(all) > n
        THEN Some(DigitsOf(OccurrenceValue(text, "NPWP", NpwpChars, all[n + 1])))
        ELSE None

\* the name of occurrence n (from 0) of "Nama" in a text, None when there is none
NamaOccurrence(text, n) ==
    LET all == Occurrences(text, "Nama", NamaChars)
    IN  IF Len(all) > n
        THEN Some(str_strip(OccurrenceValue(text, "Nama", NamaChars, all[n + 1])))
        ELSE None

\* C9: when the buyer section is empty or yields no tax-ID, npwpPembeli is the
\* digits of the second "NPWP" occurrence (index 1) of the whole normalized
\* text and is absent when there are fewer than two; namaPembeli follows the
\* same rule with the second "Nama" occurrence; the seller fields fall back to
\* the first occurrence (index 0) of the whole text.
C9_BuyerSecondOccurrence ==
    pc = "returned" =>
        LET text    == normalized
            pembeli == pembeli_section(text)
            penjual == penjual_section(text)
        IN  /\ Falsy(NpwpOccurrence(pembeli, 0))
                  => pdf_data.npwpPembeli = NpwpOccurrence(text, 1)
            /\ Falsy(NamaOccurrence(pembeli, 0))
                  => pdf_data.namaPembeli = NamaOccurrence(text, 1)
            /\ Falsy(NpwpOccurrence(penjual, 0))
                  => pdf_data.npwpPenjual = NpwpOccurrence(text, 0)
            /\ Falsy(NamaOccurrence(penjual, 0))
                  => pdf_data.namaPenjual = NamaOccurrence(text, 0)

\* no buyer section, two tax-IDs and one name in the text: the buyer got the
\* second tax-ID, not the first, and no name
C9_Witness ==
    /\ pc = "returned"
    /\ pembeli_section(normalized) = ""
    /\ Len(Occurrences(normalized, "NPWP", NpwpChars)) = 2
    /\ Len(Occurrences(normalized, "Nama", NamaChars)) = 1
    /\ pdf_data.npwpPenjual = Some("0123")
    /\ pdf_data.npwpPembeli = Some("9")
    /\ pdf_data.namaPenjual = Some("PT ABC")
    /\ pdf_data.namaPembeli = None

\* the first position where a marker stands in the text, whatever the case
\* of the letters, 0 when it stands nowhere
MarkerPosition(text, marker) ==
    LET low == str_lower(text)
        at  == {p \in 1..Len(text) : LabelAt(low, str_lower(marker), p)}
    IN  IF at = {} THEN 0 ELSE CHOOSE p \in at : \A q \in at : p <= q

\* the text from position p to the end
FromMarker(text, p) == SubSeq(text, p, Len(text))

\* the text between two markers: from the one that comes first up to the other
BetweenMarkers(text, p, q) ==
    IF p <= q THEN SubSeq(text, p, q - 1) ELSE SubSeq(text, q, p - 1)

\* C11: when both markers occur, in either order, the seller section is the
\* text between the two markers and the buyer section is the text from the
\* buyer marker to the end; when one marker occurs, its section runs from the
\* marker to the end and the other section is empty; when neither occurs, both
\* sections are empty and every field is searched in the whole text.
C11_SectionSplitting ==
    pc = "returned" =>
        LET text    == normalized
            penjual == MarkerPosition(text, "Pengusaha Kena Pajak")
            pembeli == MarkerPosition(text, "Pembeli Barang Kena Pajak")
        IN  /\ (penjual # 0 /\ pembeli # 0) =>
                  /\ penjual_section(text) = BetweenMarkers(text, penjual, pembeli)
                  /\ pembeli_section(text) = FromMarker(text, pembeli)
            /\ (penjual # 0 /\ pembeli = 0) =>
                  /\ penjual_section(text) = FromMarker(text, penjual)
                  /\ pembeli_section(text) = ""
            /\ (penjual = 0 /\ pembeli # 0) =>
                  /\ penjual_section(text) = ""
                  /\ pembeli_section(text) = FromMarker(text, pembeli)
            /\ (penjual = 0 /\ pembeli = 0) =>
                  /\ penjual_section(text) = ""
                  /\ pembeli_section(text) = ""
                  /\ pdf_data.npwpPenjual = NpwpOccurrence(text, 0)
                  /\ pdf_data.namaPenjual = NamaOccurrence(text, 0)
                  /\ pdf_data.npwpPembeli = NpwpOccurrence(text, 1)
                  /\ pdf_data.namaPembeli = NamaOccurrence(text, 1)

=============================================================================
